---- MODULE Spec2Model ----
(***************************************************************************)
(* DefaultOnceWebserver (src/src/2_systems/OnceWeberver.class.mts): the    *)
(* two route handlers of the server, GET /ior* and _handleUDE_CRUD, and    *)
(* the static start(scenarioName) that finds or creates the server, as a   *)
(* state machine.  Every request handler is an async function: it runs     *)
(* from one await to the next without interruption, and between two awaits *)
(* the handlers of the other requests in flight may run.  One action of    *)
(* the model is one such uninterrupted piece of a handler, or the moment   *)
(* an awaited collaborator call takes effect.                              *)
(*                                                                         *)
(* The collaborators the handlers call (UDELoader, DefaultIOR, the         *)
(* component's persistanceManager) are imported from other packages; they  *)
(* are modelled from their contract in spec.md, sections 3, 4.2 and 5.     *)
(***************************************************************************)
EXTENDS Integers, Sequences, FiniteSets, TLC

\* ------------------------------------------------------------------ bounds
\* Requests whose handlers may be in flight at the same time.
MaxInFlight == 2
\* Component instances that may be alive at the same time: with two requests
\* in flight, two registered and one held by the other request leave one for
\* the constructor call of a POST.
MaxObjs == 4

Slots == 1..MaxInFlight
Objs == 1..MaxObjs
NoObj == 0

\* ------------------------------------------------------------------ inputs
\* Addresses: ids and aliases share one name space (GET /UDE/<address>).
Addrs == {"X", "a", "b"}
\* The addresses the GET, PUT and DELETE requests of the model name.
UrlAddrs == {"X", "a"}
NoAddr == "none"

\* A model is a JSON object, here the set of its <<key, value>> members.
M1 == {<<"foo", 1>>, <<"bar", 2>>}
M2 == {<<"foo", 9>>}

Undefined == "undefined"

\* Request bodies of POST and PUT.  typeReference "T" names a loadable
\* class, "Missing" names none.
Bodies ==
  { [typeReference |-> "T", model |-> M1, id |-> "X", hasAlias |-> TRUE, alias |-> <<"a">>],
    [typeReference |-> "T", model |-> M2, id |-> "X", hasAlias |-> TRUE, alias |-> <<"a", "b">>],
    [typeReference |-> Undefined, model |-> M1, id |-> "X", hasAlias |-> TRUE, alias |-> <<"a">>],
    [typeReference |-> "Missing", model |-> M1, id |-> "X", hasAlias |-> FALSE, alias |-> <<>>] }
\* The bodies the PUT requests of the model carry: a well-formed one whose id
\* and alias list are not those of the component it is put to, and a
\* malformed one.
PutBodies ==
  { [typeReference |-> "T", model |-> M2, id |-> "b", hasAlias |-> TRUE, alias |-> <<"a", "b">>],
    [typeReference |-> Undefined, model |-> M1, id |-> "X", hasAlias |-> TRUE, alias |-> <<"a">>] }
NoBody == [typeReference |-> Undefined, model |-> {}, id |-> NoAddr, hasAlias |-> FALSE, alias |-> <<>>]

\* URLs of the reference name space, as the scheme marker and the rest.
IorSchemes == {"/ior:esm:", "/ior:ude:"}
\* References: "X" resolves to a resource path, "Z" does not.
IorRefs == {"X", "Z"}
\* Values of the sec-fetch-dest request header.
\* Undefined: the request carries no such header.
FetchDests == {"script", "document", Undefined}

\* ------------------------------------------------------------------ state
VARIABLES
  req,      \* per slot: the request being handled and its handler's position
  obj,      \* per component instance: its IOR id, its aliases, its model
  reg,      \* the registry: address -> component instance (NoObj: none)
  posted,   \* history: id -> the model of the first POST that succeeded on it
            \*   since a PUT or DELETE last touched the component of that id
  tomb      \* history: addresses whose DELETE was acknowledged and under
            \*   which no component has been created since

vars == <<req, obj, reg, posted, tomb>>

NoModel == {}
NoSnap == [kind |-> "none", id |-> NoAddr, alias |-> {}, model |-> {}]
\* The fixed acknowledgement of DELETE, {delete: 'ok'}.
DeleteOk == [kind |-> "ack", id |-> NoAddr, alias |-> {}, model |-> {}]

\* The class of the server itself, DefaultOnceWebserver.
ServerClass == "DefaultOnceWebserver"

BlankObj == [id |-> NoAddr, alias |-> {}, model |-> {}, class |-> "none"]

\* pc: the await the handler is suspended at, or how it ended.
\* had, rival: history (the addresses of the component a DELETE removed; the
\* POST of the same id that was in flight when this POST arrived).
\* route "start": a call of the static start(scenarioName), addr being the
\* scenario name; loaded: how its UDELoader.load ended; started: the
\* instance start() of the server it returns has run.
IdleReq ==
  [route |-> "none", method |-> "none", addr |-> NoAddr, body |-> NoBody,
   scheme |-> "none", ref |-> "none", dest |-> "none",
   pc |-> "idle", comp |-> NoObj, calls |-> <<>>, ctype |-> FALSE,
   resp |-> NoSnap, redirected |-> FALSE, failure |-> "none",
   aliasFailed |-> FALSE, had |-> {}, rival |-> 0,
   loaded |-> "none", started |-> FALSE]

Terminal == {"responded", "failed"}
Free(r) == req[r].pc \in Terminal \cup {"idle"}

\* ucpComponentData: the snapshot of a component.
SnapshotOf(c) == [kind |-> "snapshot", id |-> c.id, alias |-> c.alias, model |-> c.model]
Snapshot(o) == SnapshotOf(obj[o])

Init ==
  /\ req = [r \in Slots |-> IdleReq]
  /\ obj = [o \in Objs |-> BlankObj]
  /\ reg = [a \in Addrs |-> NoObj]
  /\ posted = [a \in Addrs |-> NoModel]
  /\ tomb = {}

\* ------------------------------------------------------- instance lifetime
Referenced(o, rq, rg) ==
  \/ \E a \in Addrs : rg[a] = o
  \/ \E r \in Slots : rq[r].comp = o

\* An instance nothing refers to any more is garbage: its place is blanked.
Collect(ob, rq, rg) ==
  [o \in Objs |-> IF Referenced(o, rq, rg) THEN ob[o] ELSE BlankObj]

\* new udeComponentClass(): the instance the constructor call returns.
NewObj == CHOOSE o \in Objs : ~Referenced(o, req, reg) /\ \A p \in Objs : ~Referenced(p, req, reg) => o <= p
CanAllocate == \E o \in Objs : ~Referenced(o, req, reg)

Call(op, arg) == [op |-> op, arg |-> arg]

\* ------------------------------------------------------------ collaborators
\* UDELoader.validateUDEStructure: the body has the required shape.
ValidStructure(body) == body.typeReference # Undefined /\ body.model # {}

\* DefaultIOR.load(typeIOR): the type reference names a loadable class.
ClassLoadable(typeIOR) == typeIOR = "T"

\* ior.load({returnValue: path}): the reference names a resource.
IorResolves(ref) == ref = "X"

\* ior.load() under the ude protocol: the instance registered at an address.
Resolve(a) == reg[a]

\* The addresses a component answers to: its id and its aliases.
AddrsOf(o) == ({obj[o].id} \cup obj[o].alias) \cap Addrs

\* --------------------------------------------------------------- requests
\* Faulty variant: the handler replaces the failure of a collaborator by one
\* of its own.
FailWrapped(rec, kind) == [rec EXCEPT !.pc = "failed", !.failure = "InternalError"]

\* A throw leaves the handler: the request fails with what was thrown.
Fail(rec, kind) == [rec EXCEPT !.pc = "failed", !.failure = kind]

\* The slots after slot r has taken a new request: the record of the request
\* that ended there is dropped.
Arrive(r, rec) ==
  [s \in Slots |-> IF s = r THEN rec
                   ELSE IF req[s].rival = r THEN [req[s] EXCEPT !.rival = 0] ELSE req[s]]

\* A request arrives at a free slot and its handler runs to its first await.
Handle(r, rec) ==
  /\ Free(r)
  /\ req' = Arrive(r, rec)
  /\ obj' = Collect(obj, Arrive(r, rec), reg)
  /\ UNCHANGED <<reg, posted, tomb>>

\* A POST of the same id that is in flight and has not registered its
\* component, the id being unregistered.
RivalOf(r, b) ==
  LET c == {s \in Slots \ {r} : /\ req[s].method = "POST"
                                  /\ req[s].pc \in {"loadingClass", "creating", "writing"}
                                  /\ req[s].body.id = b.id
                                  /\ reg[b.id] = NoObj}
  IN  IF c = {} THEN 0 ELSE CHOOSE s \in c : TRUE

\* Faulty variant: the content type of the reply is not set.
UdeRequestNoHeader(m) == [IdleReq EXCEPT !.route = "UDE", !.method = m]

\* _handleUDE_CRUD is entered: before it looks at the method, the handler
\* sets the Content-Type header of the reply to JSON.
UdeRequest(m) == [IdleReq EXCEPT !.route = "UDE", !.method = m, !.ctype = TRUE]

Untrack(i) == [a \in Addrs |-> IF a = i THEN NoModel ELSE posted[a]]


\* Faulty variant: the fetch context is not looked at.
IorServicedAnyDest(scheme, dest) == scheme = "/ior:esm:"

\* ------------------------------------------------------ GET /ior* (l. 102)
\* The two conditions under which the handler resolves the reference.
IorServiced(scheme, dest) == scheme = "/ior:esm:" /\ dest = "script"

IorStart(r) ==
  \E sch \in IorSchemes, ref \in IorRefs, d \in FetchDests :
    LET rec == [IdleReq EXCEPT !.route = "ior", !.method = "GET", !.scheme = sch, !.ref = ref, !.dest = d]
    IN  Handle(r, IF IorServiced(sch, d)
                  THEN [rec EXCEPT !.pc = "iorLoading", !.calls = <<Call("iorLoad", ref)>>]
                  ELSE Fail(rec, "NotFound"))

\* What follows reply.redirect: the branch does not return, so control
\* reaches the throw that ends the handler.
AfterRedirect == "throw"

\* The awaited ior.load settles: its failure leaves the handler; its path is
\* made relative to the web root and the reply redirected to it.
IorResolve(r) ==
  /\ req[r].pc = "iorLoading"
  /\ req' = [req EXCEPT ![r] =
       IF IorResolves(req[r].ref)
       THEN IF AfterRedirect = "throw"
            THEN [Fail(req[r], "NotFound") EXCEPT !.redirected = TRUE]
            ELSE [req[r] EXCEPT !.redirected = TRUE, !.pc = "responded"]
       ELSE Fail(req[r], "NotFound")]
  /\ UNCHANGED <<obj, reg, posted, tomb>>

\* --------------------------------------------------- _handleUDE_CRUD: GET
GetStart(r) ==
  \E a \in UrlAddrs :
    Handle(r, [UdeRequest("GET") EXCEPT !.addr = a,
                              !.pc = "loading", !.calls = <<Call("load", a)>>])

\* ior.load() of GET, PUT and DELETE settles: the registered instance, or
\* NotFound.
LoadResolve(r) ==
  /\ req[r].pc = "loading"
  /\ req' = [req EXCEPT ![r] =
       IF Resolve(req[r].addr) = NoObj
       THEN Fail(req[r], "NotFound")
       ELSE [req[r] EXCEPT !.pc = "resolved", !.comp = Resolve(req[r].addr)]]
  /\ UNCHANGED <<obj, reg, posted, tomb>>

\* Faulty variant: the GET branch persists the component it has loaded.
GetRespondPersisting(r) ==
  /\ req[r].pc = "resolved" /\ req[r].method = "GET"
  /\ req' = [req EXCEPT ![r] = [req[r] EXCEPT !.pc = "responded", !.resp = Snapshot(req[r].comp),
                                              !.calls = @ \o <<Call("create", "")>>]]
  /\ reg' = [a \in Addrs |-> IF a \in AddrsOf(req[r].comp) THEN req[r].comp ELSE reg[a]]
  /\ UNCHANGED <<obj, posted, tomb>>

\* The load of a GET has returned: the handler returns the snapshot of the
\* component.
GetRespond(r) ==
  /\ req[r].pc = "resolved" /\ req[r].method = "GET"
  /\ req' = [req EXCEPT ![r] = [req[r] EXCEPT !.pc = "responded", !.resp = Snapshot(req[r].comp)]]
  /\ UNCHANGED <<obj, reg, posted, tomb>>


\* Faulty variant: the body is not validated.
PostValidatesNothing(body) == TRUE

\* -------------------------------------------------- _handleUDE_CRUD: POST
\* The first statement of the POST branch: validateUDEStructure throws on a
\* malformed body, before anything else is called.
PostValidates(body) == ValidStructure(body)

PostStart(r) ==
  \E b \in Bodies :
    LET rec == [UdeRequest("POST") EXCEPT !.body = b]
    IN  Handle(r, IF PostValidates(b)
                  THEN [rec EXCEPT !.pc = "loadingClass", !.rival = RivalOf(r, b),
                                   !.calls = <<Call("validate", ""), Call("loadClass", b.typeReference)>>]
                  ELSE [Fail(rec, "MalformedPayload") EXCEPT !.calls = <<Call("validate", "")>>])

\* udeData.alias, or nothing to iterate when it is undefined.
Aliases(body) == IF body.hasAlias THEN body.alias ELSE <<>>

\* Faulty variant: the id of the payload is not assigned, the instance keeps
\* the key it was constructed with.
BuiltWithOwnKey(body, k) ==
  [id |-> "generated", alias |-> {Aliases(body)[i] : i \in 1..k}, model |-> body.model,
   class |-> body.typeReference]

\* The instance after construction, the assignment of model and IOR.id, and
\* the first k addAlias calls; its class is the one the type reference loaded.
Built(body, k) ==
  [id |-> body.id, alias |-> {Aliases(body)[i] : i \in 1..k}, model |-> body.model,
   class |-> body.typeReference]

\* The collaborator calls of the step: the constructor, addAlias for the
\* first n aliases, and create() when every addAlias returned.
PostCalls(body, n, done) ==
  <<Call("new", body.typeReference)>>
    \o [i \in 1..n |-> Call("addAlias", Aliases(body)[i])]
    \o (IF done THEN <<Call("create", "")>> ELSE <<>>)


\* Faulty variant: a failure of addAlias is ignored and create() is called.
PostNextIgnoresFailure(body, k) == "creating"

\* Where the handler is after the alias loop in which k calls returned: an
\* addAlias that throws leaves the handler, otherwise create() is awaited.
PostNext(body, k) == IF k < Len(Aliases(body)) THEN "failed" ELSE "creating"

\* The awaited class load settles; the rest of the handler up to the await of
\* create() runs: k is the number of addAlias calls that return.
PostInstantiate(r) ==
  /\ req[r].pc = "loadingClass"
  /\ IF ~ClassLoadable(req[r].body.typeReference)
     THEN /\ req' = [req EXCEPT ![r] = Fail(req[r], "NotFound")]
          /\ UNCHANGED obj
     ELSE /\ CanAllocate
          /\ \E k \in 0..Len(Aliases(req[r].body)) :
               LET b == req[r].body
                   thrown == k < Len(Aliases(b))
                   n == IF thrown THEN k + 1 ELSE k
                   next == PostNext(b, k)
               IN  /\ req' = [req EXCEPT ![r] =
                        [req[r] EXCEPT !.pc = next, !.comp = NewObj, !.aliasFailed = thrown,
                                       !.failure = IF next = "failed" THEN "AliasFailure" ELSE "none",
                                       !.calls = @ \o PostCalls(b, n, next = "creating")]]
                   /\ obj' = [obj EXCEPT ![NewObj] = Built(b, k)]
  /\ UNCHANGED <<reg, posted, tomb>>


\* Faulty variant: a failure of create() is caught, and the handler goes on as if the
\* component had been created.
CreateFailureCaught(rec, kind) == [rec EXCEPT !.failure = kind, !.pc = "created"]

\* await create() is not guarded: a failure of create() leaves the handler.
CreateFailed(rec, kind) == Fail(rec, kind)

\* create(), first half: the registry is checked for the component's id and
\* aliases; the I/O may fail.
CreateCheck(r) ==
  /\ req[r].pc = "creating"
  /\ \/ req' = [req EXCEPT ![r] = CreateFailed(req[r], "IOFailure")]
     \/ req' = [req EXCEPT ![r] =
          IF \E a \in AddrsOf(req[r].comp) : reg[a] # NoObj
          THEN CreateFailed(req[r], "Conflict")
          ELSE [req[r] EXCEPT !.pc = "writing"]]
  /\ UNCHANGED <<obj, reg, posted, tomb>>

\* create(), second half: the component is registered under its id and
\* aliases.
CreateWrite(r) ==
  LET o == req[r].comp
      rg == [a \in Addrs |-> IF a \in AddrsOf(o) THEN o ELSE reg[a]]
      rq == [s \in Slots |-> IF s = r THEN [req[r] EXCEPT !.pc = "created"]
                             ELSE [req[s] EXCEPT !.had = @ \ AddrsOf(o)]]
  IN  /\ req[r].pc = "writing"
      /\ req' = rq
      /\ reg' = rg
      /\ obj' = Collect(obj, rq, rg)
      /\ tomb' = tomb \ AddrsOf(o)
      /\ UNCHANGED posted


\* Faulty variant: create() is called and not awaited.
CreateNotAwaited(pc) == pc \in {"writing", "created"}

\* await create(): the handler goes on when create() has returned.
CreateReturned(pc) == pc = "created"

\* Faulty variant: the return statement is missing; the handler ends with
\* nothing, and the server sends no reply for it.
PostReturnMissing(r) ==
  /\ CreateReturned(req[r].pc)
  /\ UNCHANGED vars

\* create() has returned: the handler returns the component's snapshot.
PostRespond(r) ==
  LET o == req[r].comp
      i == req[r].body.id
  IN  /\ CreateReturned(req[r].pc)
      /\ req' = [req EXCEPT ![r] = [req[r] EXCEPT !.pc = "responded", !.resp = Snapshot(o)]]
      /\ posted' = [a \in Addrs |->
                      IF a = i /\ posted[a] = NoModel /\ reg[a] = o /\ obj[o].model = req[r].body.model
                      THEN req[r].body.model ELSE posted[a]]
      /\ UNCHANGED <<obj, reg, tomb>>

\* ------------------------------------------------ _handleUDE_CRUD: DELETE
DeleteStart(r) ==
  \E a \in UrlAddrs :
    Handle(r, [UdeRequest("DELETE") EXCEPT !.addr = a,
                              !.pc = "loading", !.calls = <<Call("load", a)>>])


\* Faulty variant: the component's aliases are left behind.
DeleteTargetsIdOnly(r) == {obj[req[r].comp].id} \cap Addrs

\* The addresses delete() removes: delete() is called on the persistence
\* manager of the resolved component.
DeleteTargets(r) == AddrsOf(req[r].comp)

\* The handler calls delete() on the resolved component; the call takes
\* effect (the component's id and aliases leave the registry) or fails.
DeleteDo(r) ==
  /\ req[r].pc = "resolved" /\ req[r].method = "DELETE"
  /\ \/ /\ req' = [req EXCEPT ![r] = [Fail(req[r], "IOFailure") EXCEPT !.calls = @ \o <<Call("delete", "")>>]]
        /\ UNCHANGED <<obj, reg, posted, tomb>>
     \/ LET o == req[r].comp
            rg == [a \in Addrs |-> IF a \in DeleteTargets(r) THEN NoObj ELSE reg[a]]
            rq == [req EXCEPT ![r] = [req[r] EXCEPT !.pc = "deleted", !.had = AddrsOf(o),
                                                    !.calls = @ \o <<Call("delete", "")>>]]
        IN  /\ req' = rq
            /\ reg' = rg
            /\ obj' = Collect(obj, rq, rg)
            /\ posted' = Untrack(obj[o].id)
            /\ UNCHANGED tomb

DeleteRespond(r) ==
  /\ req[r].pc = "deleted"
  /\ req' = [req EXCEPT ![r] = [req[r] EXCEPT !.pc = "responded", !.resp = DeleteOk]]
  /\ tomb' = tomb \cup req[r].had
  /\ UNCHANGED <<obj, reg, posted>>

\* --------------------------------------------------- _handleUDE_CRUD: PUT
\* The PUT branch validates the body first and resolves the address second.
PutStart(r) ==
  \E a \in UrlAddrs, b \in PutBodies :
    LET rec == [UdeRequest("PUT") EXCEPT !.addr = a, !.body = b]
    IN  Handle(r, IF ValidStructure(b)
                  THEN [rec EXCEPT !.pc = "loading", !.calls = <<Call("validate", ""), Call("load", a)>>]
                  ELSE [Fail(rec, "MalformedPayload") EXCEPT !.calls = <<Call("validate", "")>>])


\* Faulty variant: the body's model is merged into the old one.
PutModelMerges(old, data) == data \cup {kv \in old : \A d \in data : d[1] # kv[1]}

\* udeComponent.model = udeData.particle.data: the new model of the component.
PutModel(old, data) == data


\* Faulty variant: the aliases of the body are added to the component.
PutAppliesAliases(c, body) ==
  [c EXCEPT !.model = PutModel(c.model, body.model),
            !.alias = @ \cup {Aliases(body)[i] : i \in 1..Len(Aliases(body))}]

\* The component after the PUT branch: the assignment of the model is the
\* only statement that touches it.
PutUpdated(c, body) == [c EXCEPT !.model = PutModel(c.model, body.model)]

PutApply(r) ==
  LET o == req[r].comp
      ob == [obj EXCEPT ![o] = PutUpdated(obj[o], req[r].body)]
  IN  /\ req[r].pc = "resolved" /\ req[r].method = "PUT"
      /\ obj' = ob
      /\ req' = [req EXCEPT ![r] = [req[r] EXCEPT !.pc = "responded", !.resp = SnapshotOf(ob[o])]]
      /\ posted' = Untrack(obj[o].id)
      /\ UNCHANGED <<reg, tomb>>

\* ---------------------------------------------- static start(scenarioName)
\* The scenario names start is called with; Undefined: with none.
StartNames == {Undefined, "a", "b"}
\* classDescriptor.className + 'Instance', the name start() uses when it is
\* given none; here the address X.
DefaultScenario == "X"
ScenarioName(n) == IF n = Undefined THEN DefaultScenario ELSE n

AllFree == \A s \in Slots : Free(s)

\* start(scenarioName) is called, no other call or request being in flight,
\* and runs to its await of UDELoader.load.
StartCall(r) ==
  \E n \in StartNames :
    /\ AllFree
    /\ Handle(r, [IdleReq EXCEPT !.route = "start", !.addr = ScenarioName(n), !.pc = "startLoading",
                                 !.calls = <<Call("load", ScenarioName(n))>>])

\* new this(): a server with the key and the model of its constructor, and
\* the aliases added to it.
NewServer(aliases) == [id |-> "generated", alias |-> aliases, model |-> {}, class |-> ServerClass]


\* loadedServer instanceof this: the loaded component is started and
\* returned.
StartReturnsLoaded(c) == c # NoObj /\ obj[c].class = ServerClass

\* How UDELoader.load ended when it did not throw an error that start
\* rethrows: with a server, with another component, or with 'No file Found'.
LoadedAs(c) ==
  IF c = NoObj THEN "NoFileFound"
  ELSE IF obj[c].class = ServerClass THEN "server" ELSE "other"

\* The awaited UDELoader.load settles.  An error other than 'No file Found'
\* is rethrown.  A loaded server is started.  Otherwise control reaches the
\* statements after the try: a server is constructed, the scenario name is
\* added as its alias (the call may throw) and create() is awaited.
StartLoad(r) ==
  LET n == req[r].addr
      c == Resolve(n)
  IN  /\ req[r].pc = "startLoading"
      /\ \/ /\ req' = [req EXCEPT ![r] = Fail([req[r] EXCEPT !.loaded = "error"], "IOFailure")]
            /\ UNCHANGED obj
         \/ /\ StartReturnsLoaded(c)
            /\ req' = [req EXCEPT ![r] =
                 [req[r] EXCEPT !.pc = "startingLoaded", !.comp = c, !.loaded = LoadedAs(c),
                                !.calls = @ \o <<Call("start", "")>>]]
            /\ UNCHANGED obj
         \/ /\ ~StartReturnsLoaded(c)
            /\ CanAllocate
            /\ \E thrown \in BOOLEAN :
                 LET rec == [req[r] EXCEPT !.comp = NewObj, !.loaded = LoadedAs(c), !.aliasFailed = thrown,
                                           !.calls = @ \o <<Call("new", ServerClass), Call("addAlias", n)>>]
                 IN  /\ req' = [req EXCEPT ![r] =
                          IF thrown THEN Fail(rec, "AliasFailure")
                          ELSE [rec EXCEPT !.pc = "creating", !.calls = @ \o <<Call("create", "")>>]]
                     /\ obj' = [obj EXCEPT ![NewObj] = NewServer(IF thrown THEN {} ELSE {n})]
      /\ UNCHANGED <<reg, posted, tomb>>

\* await loadedServer.start() returns: the loaded server is returned.
StartLoaded(r) ==
  /\ req[r].pc = "startingLoaded"
  /\ req' = [req EXCEPT ![r] = [req[r] EXCEPT !.pc = "responded", !.started = TRUE]]
  /\ UNCHANGED <<obj, reg, posted, tomb>>

\* create() of the new server has returned; await newServer.start() is
\* called and returns: the new server is returned.
StartNew(r) ==
  /\ req[r].route = "start" /\ req[r].pc = "created"
  /\ req' = [req EXCEPT ![r] = [req[r] EXCEPT !.pc = "responded", !.started = TRUE,
                                              !.calls = @ \o <<Call("start", "")>>]]
  /\ UNCHANGED <<obj, reg, posted, tomb>>

\* A server that start returned is up: it takes requests.
ServerUp == \E s \in Slots : req[s].started

\* ------------------------------------------------------------------- spec
Post(r) == req[r].method = "POST"

\* The handlers of the persisted-component name space, /UDE.
NextUde ==
  \E r \in Slots :
    \/ GetStart(r) \/ LoadResolve(r) \/ GetRespond(r)
    \/ PostStart(r) \/ PostInstantiate(r) \/ CreateCheck(r) \/ CreateWrite(r) \/ PostRespond(r)
    \/ DeleteStart(r) \/ DeleteDo(r) \/ DeleteRespond(r)
    \/ PutStart(r) \/ PutApply(r)

\* The handler of the reference name space, /ior*.  It reads and writes
\* nothing the /UDE handlers share, so it is checked on its own.
NextIor == \E r \in Slots : IorStart(r) \/ IorResolve(r)

\* The calls of start, one after the other, and between them the POSTs a
\* started server takes, one at a time.
NextStart ==
  \E r \in Slots :
    \/ StartCall(r) \/ StartLoad(r) \/ StartLoaded(r) \/ StartNew(r)
    \/ CreateCheck(r) \/ CreateWrite(r)
    \/ (ServerUp /\ AllFree /\ ~req[r].started /\ PostStart(r))
    \/ PostInstantiate(r)
    \/ (Post(r) /\ PostRespond(r))

Spec == Init /\ [][NextUde]_vars
SpecIor == Init /\ [][NextIor]_vars
SpecStart == Init /\ [][NextStart]_vars


\* ------------------------------------------------------------- scheduling
\* The steps of the handler of the request in slot r that follow its
\* arrival: an awaited call settles, or the handler resumes after one and
\* runs to its return.
Progress(r) ==
  \/ LoadResolve(r) \/ GetRespond(r)
  \/ PostInstantiate(r) \/ CreateCheck(r) \/ CreateWrite(r) \/ PostRespond(r)
  \/ DeleteDo(r) \/ DeleteRespond(r)
  \/ PutApply(r)
  \/ IorResolve(r)

\* Runs in which the requests are all on /UDE, or all on /ior*; the two
\* handlers share no state.
UdeOnly == \A r \in Slots : req[r].route # "ior"
IorOnly == \A r \in Slots : req[r].route # "UDE"
\* The GET, PUT and DELETE requests of these runs name the component by its
\* id, so that they all meet on one component.
ByIdOnly == \A r \in Slots : req[r].addr \in {NoAddr, "X"}
NextLive == (UdeOnly /\ NextUde /\ ByIdOnly') \/ (IorOnly /\ NextIor)

\* Every awaited collaborator call settles, and the event loop resumes every
\* handler whose awaited call has settled; requests arrive or not.
Fairness == \A r \in Slots : WF_vars(Progress(r))
SpecLive == Init /\ [][NextLive]_vars /\ Fairness

\* ----------------------------------------------------------------- claims
UdeGet(g) == req[g].route = "UDE" /\ req[g].method = "GET"
Registered(o) == \E a \in Addrs : reg[a] = o
Keys(m) == {kv[1] : kv \in m}

\* C1: round trip.  Once a POST of model M under id X has succeeded, and
\* until a PUT or DELETE touches X, a GET /UDE/X resolves and answers with a
\* snapshot whose model is M.
C1_RoundTrip ==
  [][\A g \in Slots :
       (UdeGet(g) /\ posted[req[g].addr] # NoModel) =>
         /\ (req[g].pc = "loading" /\ req'[g].pc # "loading") => req'[g].pc = "resolved"
         /\ (req[g].pc = "resolved" /\ req'[g].pc = "responded" /\ req[g].comp = reg[req[g].addr])
              => req'[g].resp.model = posted[req[g].addr]]_vars

\* C2: delete finality.  A GET /UDE/<address> whose address, an id or an
\* alias, belonged to a component whose DELETE has been acknowledged, and
\* under which nothing has been created since, fails with NotFound.
C2_DeleteFinality ==
  [][\A g \in Slots :
       (UdeGet(g) /\ req[g].pc = "loading" /\ req'[g].pc # "loading" /\ req[g].addr \in tomb)
         => (req'[g].pc = "failed" /\ req'[g].failure = "NotFound")]_vars

\* A GET on the alias of a component deleted through its id is about to
\* resolve, the DELETE having been acknowledged.
C2_Witness ==
  \E d, g \in Slots :
    /\ req[d].method = "DELETE" /\ req[d].pc = "responded" /\ req[d].resp = DeleteOk
    /\ req[d].addr = "X" /\ "a" \in req[d].had
    /\ UdeGet(g) /\ req[g].pc = "loading" /\ req[g].addr = "a" /\ "a" \in tomb

\* C3: singleton by address.  When two POSTs of the same unregistered id
\* were in flight together and both have ended, at most one component of that
\* id is registered, and they did not both succeed with different snapshots.
C3_Singleton ==
  \A p, q \in Slots :
    (req[q].rival = p /\ req[p].pc \in Terminal /\ req[q].pc \in Terminal) =>
      /\ Cardinality({o \in Objs : Registered(o) /\ obj[o].id = req[q].body.id}) <= 1
      /\ ~(req[p].pc = "responded" /\ req[q].pc = "responded" /\ req[p].resp # req[q].resp)

\* The outcomes a request has produced: a body, a redirect, a failure.
Outcomes(r) ==
  (IF req[r].resp # NoSnap THEN {"body"} ELSE {})
    \cup (IF req[r].redirected THEN {"redirect"} ELSE {})
    \cup (IF req[r].failure # "none" THEN {"failure"} ELSE {})

\* C4: every request that has ended has exactly one outcome, and no request
\* in flight has one yet.
C4_OneOutcome ==
  \A r \in Slots :
    /\ req[r].pc \in Terminal => Cardinality(Outcomes(r)) = 1
    /\ req[r].pc \notin Terminal => Outcomes(r) = {}

\* C5: redirect gating.  A GET /ior* that has ended was redirected exactly
\* when its URL starts with /ior:esm:, its sec-fetch-dest header is 'script'
\* and its reference resolves; every other request failed with NotFound, was
\* not redirected and got no body.
C5_RedirectGating ==
  \A r \in Slots :
    (req[r].route = "ior" /\ req[r].pc \in Terminal) =>
      LET ok == req[r].scheme = "/ior:esm:" /\ req[r].dest = "script" /\ IorResolves(req[r].ref)
      IN  /\ req[r].redirected <=> ok
          /\ req[r].resp = NoSnap
          /\ ~ok => (req[r].pc = "failed" /\ req[r].failure = "NotFound")

\* A script fetch of a resolving reference was redirected, and a fetch of the
\* same reference without the header failed.
C5_Witness ==
  \E r, n \in Slots :
    /\ req[r].route = "ior" /\ req[r].pc \in Terminal /\ req[r].redirected
    /\ req[n].route = "ior" /\ req[n].pc = "failed" /\ req[n].dest = Undefined
    /\ req[n].scheme = "/ior:esm:" /\ req[n].ref = req[r].ref /\ ~req[n].redirected

\* C6: a POST whose body fails validation fails with MalformedPayload, has
\* called nothing but the validation and has instantiated no component.
C6_MalformedRejected ==
  \A r \in Slots :
    (Post(r) /\ ~ValidStructure(req[r].body)) =>
      /\ req[r].pc = "failed" /\ req[r].failure = "MalformedPayload"
      /\ req[r].calls = <<Call("validate", "")>>
      /\ req[r].comp = NoObj
      /\ req[r].resp = NoSnap

\* A malformed POST naming id X and alias a has failed, and neither resolves.
C6_Witness ==
  \E r \in Slots :
    /\ Post(r) /\ ~ValidStructure(req[r].body) /\ req[r].pc = "failed"
    /\ req[r].body.id = "X" /\ reg["X"] = NoObj /\ reg["a"] = NoObj

\* C7: update replaces.  The step in which a PUT answers leaves the
\* component's model equal to the body's model, answers with that model, and
\* keeps no key of the old model that the body's model lacks.
C7_UpdateReplaces ==
  [][\A r \in Slots :
       (req[r].method = "PUT" /\ req[r].pc = "resolved" /\ req'[r].pc = "responded") =>
         /\ obj'[req[r].comp].model = req[r].body.model
         /\ req'[r].resp.model = req[r].body.model
         /\ \A k \in Keys(obj[req[r].comp].model) \ Keys(req[r].body.model) :
              k \notin Keys(obj'[req[r].comp].model)]_vars

\* A component a POST answered with model M1 for has been PUT to M2.
C7_Witness ==
  \E p, u \in Slots :
    /\ Post(p) /\ req[p].pc = "responded" /\ req[p].resp.model = M1
    /\ req[u].method = "PUT" /\ req[u].pc = "responded" /\ req[u].comp = req[p].comp
    /\ req[u].resp.model = M2 /\ obj[req[u].comp].model = M2

\* C8: alias equivalence.  For every registered component, each of its
\* aliases and its id resolve, and to components with the same snapshot.
C8_AliasEquivalence ==
  \A o \in Objs :
    Registered(o) =>
      \A a \in obj[o].alias :
        /\ reg[a] # NoObj /\ reg[obj[o].id] # NoObj
        /\ Snapshot(reg[a]) = Snapshot(reg[obj[o].id])

\* The positions in the calls of request r at which op was called.
CallsOf(r, op) == {i \in 1..Len(req[r].calls) : req[r].calls[i].op = op}

\* C9: alias before create.  In a POST create() is called at most once, after
\* one addAlias call for each alias of the payload, in the payload's order;
\* a POST in which an addAlias call failed has failed, has not called
\* create(), and its component is registered under no address.
C9_AliasBeforeCreate ==
  \A r \in Slots :
    Post(r) =>
      /\ Cardinality(CallsOf(r, "create")) <= 1
      /\ \A c \in CallsOf(r, "create") :
           /\ \A i \in CallsOf(r, "addAlias") : i < c
           /\ [i \in 1..Cardinality(CallsOf(r, "addAlias")) |->
                 req[r].calls[CHOOSE j \in CallsOf(r, "addAlias") :
                                Cardinality({h \in CallsOf(r, "addAlias") : h <= j}) = i].arg]
                = Aliases(req[r].body)
      /\ req[r].pc \in {"creating", "writing", "created", "responded"} => CallsOf(r, "create") # {}
      /\ req[r].aliasFailed =>
           /\ CallsOf(r, "create") = {}
           /\ req[r].pc = "failed"
           /\ ~Registered(req[r].comp)

\* The second addAlias call of a POST with two aliases has failed after the
\* first had added its alias, and another POST has called create() after its
\* two addAlias calls.
C9_Witness ==
  \E r, c \in Slots :
    /\ Post(r) /\ req[r].aliasFailed /\ obj[req[r].comp].alias = {"a"}
    /\ Cardinality(CallsOf(r, "addAlias")) = 2
    /\ Post(c) /\ CallsOf(c, "create") # {} /\ Cardinality(CallsOf(c, "addAlias")) = 2

\* A POST whose create() call failed.
CreateFailure(r) == Post(r) /\ req[r].failure \in {"Conflict", "IOFailure"}

\* C10, as claimed: when create() of a POST fails, the request fails and none
\* of the aliases passed to addAlias resolves to any component.
C10_NoAliasResolves ==
  \A r \in Slots :
    CreateFailure(r) =>
      /\ req[r].pc = "failed"
      /\ \A a \in obj[req[r].comp].alias : reg[a] = NoObj

\* C10, amended: when create() of a POST fails, the request fails and no
\* address, so none of the aliases passed to addAlias, resolves to the
\* component of that request.
C10_NoPartialAliases ==
  \A r \in Slots :
    CreateFailure(r) =>
      /\ req[r].pc = "failed" /\ req[r].resp = NoSnap
      /\ \A a \in Addrs : reg[a] # req[r].comp

\* create() of a POST with an alias has failed, and the alias resolves to
\* another component.
C10_Witness ==
  \E r \in Slots :
    /\ CreateFailure(r) /\ req[r].pc = "failed"
    /\ \E a \in obj[req[r].comp].alias : reg[a] \notin {NoObj, req[r].comp}

\* A step of the handler of PUT request r: the request arrives, or its
\* handler moves on.
PutStep(r) == req'[r].method = "PUT" /\ req'[r] # req[r]

\* C11: update frame.  No step of a PUT changes the registry, or the id or
\* the alias set of a registered component, or the model of a component
\* other than the one it resolved; the step in which the PUT answers keeps
\* the id and the aliases of its component, whatever id and alias list the
\* body carries.
C11_UpdateFrame ==
  [][\A r \in Slots :
       PutStep(r) =>
         /\ reg' = reg
         /\ \A o \in Objs :
              Registered(o) =>
                /\ obj'[o].id = obj[o].id /\ obj'[o].alias = obj[o].alias
                /\ (o # req[r].comp \/ req'[r].pc # "responded") => obj'[o].model = obj[o].model
         /\ req'[r].pc = "responded" =>
              /\ obj'[req[r].comp].id = obj[req[r].comp].id
              /\ obj'[req[r].comp].alias = obj[req[r].comp].alias
              /\ req'[r].resp.id = obj[req[r].comp].id
              /\ req'[r].resp.alias = obj[req[r].comp].alias]_vars

\* A PUT whose body carries id b and the aliases a and b has been answered
\* for the registered component of id X and alias a.
C11_Witness ==
  \E u \in Slots :
    /\ req[u].method = "PUT" /\ req[u].pc = "responded"
    /\ req[u].body.id = "b" /\ req[u].body.alias = <<"a", "b">>
    /\ reg["X"] = req[u].comp
    /\ obj[req[u].comp].id = "X" /\ obj[req[u].comp].alias = {"a"} /\ obj[req[u].comp].model = M2
    /\ reg["b"] = NoObj

\* The failures a collaborator operation ends with (spec.md, section 7).
FailKinds(op) ==
  CASE op = "validate" -> {"MalformedPayload"}
    [] op \in {"load", "loadClass"} -> {"NotFound"}
    [] op = "addAlias" -> {"AliasFailure"}
    [] op = "create" -> {"Conflict", "IOFailure"}
    [] op = "delete" -> {"IOFailure"}
    [] OTHER -> {}

\* C12: no retry, unchanged propagation.  A request on /UDE has called each
\* of validate, load, loadClass, create and delete at most once and addAlias
\* at most once for each alias of the payload, in the payload's order; a
\* request that has failed has failed with a failure of the operation it
\* called last, and has answered nothing; a failure is never recorded on a
\* request that goes on.
C12_NoRetry ==
  \A r \in Slots :
    req[r].route = "UDE" =>
      /\ \A op \in {"validate", "load", "loadClass", "new", "create", "delete"} :
           Cardinality(CallsOf(r, op)) <= 1
      /\ Cardinality(CallsOf(r, "addAlias")) <= Len(Aliases(req[r].body))
      /\ \A j \in CallsOf(r, "addAlias") :
           req[r].calls[j].arg = Aliases(req[r].body)[Cardinality({h \in CallsOf(r, "addAlias") : h <= j})]
      /\ req[r].pc = "failed" =>
           /\ req[r].calls # <<>>
           /\ req[r].failure \in FailKinds(req[r].calls[Len(req[r].calls)].op)
           /\ req[r].resp = NoSnap
      /\ req[r].failure # "none" => req[r].pc = "failed"

\* A POST has failed on the conflict its create() call reported, and a DELETE
\* on the I/O failure of its delete() call.
C12_Witness ==
  \E p, d \in Slots :
    /\ Post(p) /\ req[p].pc = "failed" /\ req[p].failure = "Conflict"
    /\ req[p].calls[Len(req[p].calls)].op = "create"
    /\ req[d].method = "DELETE" /\ req[d].pc = "failed" /\ req[d].failure = "IOFailure"
    /\ req[d].calls = <<Call("load", req[d].addr), Call("delete", "")>>

\* C13: JSON content type.  Every request on /UDE, whatever its method,
\* while its handler runs and after it has answered or failed, has had the
\* content type of its reply set to JSON.
C13_JsonContentType ==
  \A r \in Slots : req[r].route = "UDE" => req[r].ctype

\* A DELETE has been acknowledged and a PUT has failed, each with the content
\* type set.
C13_Witness ==
  \E d, u \in Slots :
    /\ req[d].method = "DELETE" /\ req[d].pc = "responded" /\ req[d].ctype
    /\ req[u].method = "PUT" /\ req[u].pc = "failed" /\ req[u].ctype

\* The component of every POST has the id of the payload, and so has the
\* snapshot the POST has answered with.
IdOfPayload ==
  \A r \in Slots :
    (Post(r) /\ req[r].comp # NoObj) =>
      /\ obj[req[r].comp].id = req[r].body.id
      /\ req[r].pc = "responded" => req[r].resp.id = req[r].body.id

\* C14: the id of the payload is authoritative.  After every step the
\* component a POST has instantiated has the payload's id, and the snapshot
\* the POST answers with carries it; no step, so no PUT, changes the id of a
\* component that exists before and after it.
C14_IdAuthoritative ==
  [][/\ IdOfPayload'
     /\ \A o \in Objs :
          (obj[o] # BlankObj /\ obj'[o] # BlankObj) => obj'[o].id = obj[o].id]_vars

\* A POST of id X has answered with a snapshot of id X, a PUT whose body
\* carries id b has then been answered for that component, and the component
\* is registered with id X.
C14_Witness ==
  \E p, u \in Slots :
    /\ Post(p) /\ req[p].pc = "responded" /\ req[p].body.id = "X" /\ req[p].resp.id = "X"
    /\ req[u].method = "PUT" /\ req[u].pc = "responded" /\ req[u].comp = req[p].comp
    /\ req[u].body.id = "b" /\ req[u].resp.id = "X"
    /\ reg["X"] = req[p].comp /\ obj[req[p].comp].id = "X"

\* C15: update step order, as claimed.  A PUT validates its body only after
\* it has called load for its address, and a PUT that has failed with
\* MalformedPayload had resolved its address to a component.
C15_ResolveBeforeValidate ==
  \A r \in Slots :
    req[r].method = "PUT" =>
      /\ \A v \in CallsOf(r, "validate") : \E l \in CallsOf(r, "load") : l < v
      /\ req[r].failure = "MalformedPayload" => req[r].comp # NoObj

\* C16: durable before success.  The step in which a POST answers with its
\* snapshot starts where its create() call has returned without failure, and
\* the step in which create() returns leaves the component registered under
\* its id and aliases; the step in which a DELETE answers with its
\* acknowledgement starts where its delete() call has returned without
\* failure, and the step in which delete() returns leaves the id and aliases
\* of the component unregistered.
C16_DurableBeforeSuccess ==
  [][\A r \in Slots :
       /\ (req[r].resp = NoSnap /\ req'[r].resp # NoSnap /\ req'[r].method = "POST") =>
            /\ req[r].pc = "created" /\ req[r].failure = "none"
            /\ CallsOf(r, "create") # {}
       /\ (req[r].pc # "created" /\ req'[r].pc = "created") =>
            \A a \in AddrsOf(req[r].comp) : reg'[a] = req[r].comp
       /\ (req[r].resp = NoSnap /\ req'[r].resp = DeleteOk) =>
            /\ req[r].pc = "deleted" /\ req[r].failure = "none"
            /\ CallsOf(r, "delete") # {}
       /\ (req[r].pc # "deleted" /\ req'[r].pc = "deleted") =>
            \A a \in AddrsOf(req[r].comp) : reg'[a] = NoObj]_vars

\* A POST has answered with the snapshot of the component it created, and a
\* DELETE of that component has then been acknowledged, its id and alias
\* being unregistered.
C16_Witness ==
  \E p, d \in Slots :
    /\ Post(p) /\ req[p].pc = "responded" /\ req[p].resp.id = "X"
    /\ CallsOf(p, "create") # {}
    /\ req[d].method = "DELETE" /\ req[d].pc = "responded" /\ req[d].resp = DeleteOk
    /\ req[d].comp = req[p].comp /\ req[d].had = {"X", "a"}
    /\ reg["X"] = NoObj /\ reg["a"] = NoObj

\* C18: no resurrection by an update in flight.  When a PUT has resolved its
\* component and a DELETE of that component has since been acknowledged, the
\* step in which the PUT ends makes it fail, answers with no snapshot, and
\* registers nothing.
C18_NoResurrection ==
  [][\A u, d \in Slots :
       ( /\ req[u].method = "PUT" /\ req[u].pc = "resolved"
         /\ req[d].method = "DELETE" /\ req[d].pc = "responded" /\ req[d].resp = DeleteOk
         /\ req[d].comp = req[u].comp
         /\ req'[u].pc # "resolved" )
       => /\ req'[u].pc = "failed" /\ req'[u].resp = NoSnap
          /\ reg' = reg]_vars

\* A step of the handler of GET request g on /UDE: the request arrives, or
\* its handler moves on.
GetStep(g) == req'[g].route = "UDE" /\ req'[g].method = "GET" /\ req'[g] # req[g]

\* C19: read has no side effect.  No step of a GET on /UDE changes the
\* registry, or the id, the aliases or the model of a component that is
\* registered or held by a request; the GET calls nothing but load.
C19_ReadOnly ==
  [][\A g \in Slots :
       GetStep(g) =>
         /\ reg' = reg
         /\ \A o \in Objs : (Registered(o) \/ Referenced(o, req', reg')) => obj'[o] = obj[o]
         /\ \A i \in 1..Len(req'[g].calls) : req'[g].calls[i].op = "load"]_vars

\* A GET on the alias a has answered with the snapshot of the registered
\* component of id X, and another GET has failed with NotFound.
C19_Witness ==
  \E g, h \in Slots :
    /\ UdeGet(g) /\ req[g].pc = "responded" /\ req[g].addr = "a" /\ req[g].resp.id = "X"
    /\ reg["a"] = req[g].comp /\ reg["X"] = req[g].comp
    /\ req[g].resp = Snapshot(req[g].comp)
    /\ UdeGet(h) /\ req[h].pc = "failed" /\ req[h].failure = "NotFound"

InFlight(r) == req[r].pc \notin Terminal \cup {"idle"}

\* C17: every request terminates.  Under the fairness of SpecLive (every
\* awaited call settles, every resumable handler is resumed), a request on
\* /UDE or /ior* whose handler is in flight eventually has answered, been
\* redirected or failed, whatever the other requests in flight do.
C17_Terminates ==
  \A r \in Slots : InFlight(r) ~> (req[r].pc \in Terminal)

\* A POST has answered after its create() call while the DELETE in the other
\* slot waits for its delete() call.
C17_Witness ==
  \E p, d \in Slots :
    /\ Post(p) /\ req[p].pc = "responded" /\ CallsOf(p, "create") # {}
    /\ req[d].method = "DELETE" /\ req[d].pc = "resolved" /\ InFlight(d)

StartCallOf(r) == req[r].route = "start"
\* The servers registered under the name n.
ServersUnder(n) == {o \in Objs : Registered(o) /\ obj[o].class = ServerClass /\ reg[n] = o}

====
